---- MODULE Spec2Model ----
(***************************************************************************)
(* Model of tap_salesforce/salesforce.py: the quota-governed request layer *)
(* (_make_request, check_rest_quota_usage, check_bulk_quota_usage) and the *)
(* bulk query job lifecycle (bulk_query, _poll_on_batch_status,            *)
(* _get_batch_results).  The foreground thread is one caller that invokes  *)
(* the public methods of one Salesforce object; the platform's answers are *)
(* chosen nondeterministically from small sets.                            *)
(*                                                                         *)
(* login and its renewal Timer are modelled with the request builders that *)
(* read the session (LoginSpec, FairLogin): the caller's thread and the    *)
(* Timer threads interleave at every read and write of access_token and    *)
(* instance_url.  The two pure functions, _build_bulk_query_batch and      *)
(* sf_type_to_property_schema, are applied to every input of bounded sets  *)
(* (QuerySpec, SchemaSpec).                                                *)
(*                                                                         *)
(* Arithmetic on quota percentages is exact (cross-multiplied integers);   *)
(* the Python code evaluates the same expressions in binary floating       *)
(* point.                                                                  *)
(***************************************************************************)
EXTENDS Integers, Sequences, FiniteSets, Bags, TLC

\* ---- bounds of the model -------------------------------------------------
MaxJobs == 1            \* calls of bulk_query in one behaviour
MaxChecks == 1          \* calls of check_bulk_quota_usage in one behaviour
MaxPolls == 1           \* batch-status answers that may be non-terminal
MaxResults == 1         \* result ids in one result list
MaxRows == 1            \* data rows in one result's CSV
MaxAllotted == 2        \* largest <allotted> of a quota header / bulk Max
MaxRemaining == 2       \* largest <remaining> of a quota header
MaxJobsCompleted == 1   \* largest jobs_completed argument
MaxCallerLogins == 1    \* calls of login by the caller in one behaviour
NumGenerations == 2     \* distinct (token, url) pairs the OAuth server issues
MaxFields == 2          \* properties of one catalog entry

\* ---- program constants ---------------------------------------------------
DefaultQuotaPercentPerRun == 25
DefaultQuotaPercentTotal == 80
REFRESH_TOKEN_EXPIRATION_PERIOD == 900
BATCH_STATUS_POLLING_SLEEP == 5

\* configuration values handed to __init__ (0 stands for None)
ConfigPerRun == {0, 50}
ConfigTotal == {0, 50}

VARIABLES
    pc,                      \* position of the foreground thread
    call,                    \* the public method in progress / last called
    exc,                     \* exception that ended the last call, or NoExc
    quota_percent_per_run,   \* self.quota_percent_per_run
    quota_percent_total,     \* self.quota_percent_total
    rest_requests_attempted, \* self.rest_requests_attempted
    job_id,                  \* bulk_query: job_id (0 = unset)
    batch_id,                \* bulk_query: batch_id (0 = unset)
    batch_status,            \* _poll_on_batch_status: batch_status
    batch_result_list,       \* _get_batch_results: batch_result_list['result']
    result_idx,              \* _get_batch_results: position of the for loop
    column_name_list,        \* _get_batch_results: the header row of the CSV
    csv_stream,              \* lines not yet read from the open CSV stream
    csv_served,              \* the CSV payloads the platform sent to the call
    yielded,                 \* records the generator has yielded in this call
    jobs_completed,          \* check_bulk_quota_usage: argument
    limits,                  \* check_bulk_quota_usage: DailyBulkApiRequests
    last_resp,               \* the response _make_request received last
    quota_check,             \* what check_rest_quota_usage raised on last_resp
    requests,                \* the requests issued by the call, in order
    polled,                  \* the batch statuses _get_batch returned to the call
    platform_jobs,           \* platform side: ids of the jobs created
    batches,                 \* platform side: batches submitted to each job
    bulk_queries,            \* number of bulk_query calls so far
    checks,                  \* number of check_bulk_quota_usage calls so far
    access_token,            \* self.access_token: generation of the login (0 = None)
    instance_url,            \* self.instance_url: generation of the login (0 = None)
    timers,                  \* bag of the live threading.Timer threads
    issued,                  \* OAuth server: generation of the last grant
    fg_pc,                   \* session view: position of the foreground thread
    fg_exc,                  \* exception that reached the caller of login
    auth,                    \* login in the foreground: auth = resp.json()
    headers,                 \* foreground local: token in the headers dict
    url,                     \* foreground local: generation the url was built from
    at_start,                \* session token when the request's code began
    sent,                    \* the request in flight from the foreground
    caller_logins,           \* number of login calls by the caller so far
    renewal_failed,          \* a login run by a Timer thread has raised
    catalog_entry,           \* _build_bulk_query_batch: argument
    state,                   \* _build_bulk_query_batch: bookmarks of the stream
    query,                   \* _build_bulk_query_batch: result (<<>> = none yet)
    sf_type,                 \* sf_type_to_property_schema: argument
    nillable,                \* sf_type_to_property_schema: argument
    inclusion,               \* sf_type_to_property_schema: argument
    selected,                \* sf_type_to_property_schema: argument
    property_schema          \* sf_type_to_property_schema: outcome

bulk_state == <<pc, call, exc, quota_percent_per_run, quota_percent_total,
          rest_requests_attempted, job_id, batch_id, batch_status,
          batch_result_list, result_idx, column_name_list, csv_stream,
          csv_served, yielded, jobs_completed,
          limits, last_resp, quota_check, requests, polled, platform_jobs,
          batches, bulk_queries, checks>>

session_state == <<access_token, instance_url, timers, issued, fg_pc, fg_exc,
                   auth, headers, url, at_start, sent, caller_logins,
                   renewal_failed>>

builder_state == <<catalog_entry, state, query>>

schema_state == <<sf_type, nillable, inclusion, selected, property_schema>>

\* what the bulk query and quota actions leave alone
outside_bulk == <<session_state, builder_state, schema_state>>

vars == <<bulk_state, session_state, builder_state, schema_state>>

\* ---- values --------------------------------------------------------------
NoExc == [type |-> "None", msg |-> ""]
NoStatus == [state |-> "None", stateMessage |-> ""]
NoLimits == [Max |-> 0, Remaining |-> 0]
NoHeader == [kind |-> "none", r |-> 0, a |-> 0]
NoResp == [ok |-> TRUE, header |-> NoHeader]

\* Sforce-Limit-Info header values: absent, "api-usage=<r>/<a>", or the
\* usage followed by a per-app section ("api-usage=1/2; per-app-api-usage=...")
PerAppHeader == [kind |-> "usage_per_app", r |-> MaxRemaining, a |-> 1]

Headers ==
    {NoHeader, PerAppHeader}
    \cup [kind : {"usage"}, r : 0..MaxRemaining, a : 1..MaxAllotted]

\* a 2xx response with any header; a non-2xx response, whose header is not read
Responses ==
    [ok : {TRUE}, header : Headers]
    \cup [ok : {FALSE}, header : {NoHeader, [kind |-> "usage", r |-> 0, a |-> 1]}]

StateMessages == {"InvalidBatch", "QueryTimeout"}

BatchStatuses ==
    [state : {"Queued", "InProgress", "Completed", "Not Processed"}, stateMessage : {""}]
    \cup [state : {"Failed"}, stateMessage : StateMessages]

\* ---- __init__ ------------------------------------------------------------
SalesforceInit(per_run, total) ==
    /\ quota_percent_per_run = (IF per_run # 0 THEN per_run ELSE DefaultQuotaPercentPerRun)
    /\ quota_percent_total = (IF total # 0 THEN total ELSE DefaultQuotaPercentTotal)
    /\ rest_requests_attempted = 0
    /\ access_token = 0
    /\ instance_url = 0

\* no call in progress in the foreground
BulkIdle ==
    /\ pc = "idle"
    /\ call = "none"
    /\ exc = NoExc
    /\ job_id = 0
    /\ batch_id = 0
    /\ batch_status = NoStatus
    /\ batch_result_list = <<>>
    /\ result_idx = 0
    /\ column_name_list = <<>>
    /\ csv_stream = <<>>
    /\ csv_served = <<>>
    /\ yielded = <<>>
    /\ jobs_completed = 0
    /\ limits = NoLimits
    /\ last_resp = NoResp
    /\ quota_check = NoExc
    /\ requests = <<>>
    /\ polled = <<>>
    /\ platform_jobs = {}
    /\ batches = [j \in 1..MaxJobs |-> 0]
    /\ bulk_queries = 0
    /\ checks = 0

NoSent == [op |-> "none", consistent |-> TRUE, fresh |-> TRUE]

\* no login has been called and no Timer thread exists
SessionIdle ==
    /\ timers = EmptyBag
    /\ issued = 0
    /\ fg_pc = "ready"
    /\ fg_exc = NoExc
    /\ auth = 0
    /\ headers = 0
    /\ url = 0
    /\ at_start = 0
    /\ sent = NoSent
    /\ caller_logins = 0
    /\ renewal_failed = FALSE

\* no query has been built
BuilderIdle ==
    /\ catalog_entry = [stream |-> "Account", replication_key |-> "", properties |-> <<>>]
    /\ state = {}
    /\ query = <<>>

NotCalled ==
    [called |-> FALSE, raises |-> "None",
     schema |-> [inclusion |-> "available", selected |-> FALSE]]

\* the function has not been called
SchemaIdle ==
    /\ sf_type = "id"
    /\ nillable = FALSE
    /\ inclusion = "available"
    /\ selected = FALSE
    /\ property_schema = NotCalled

Init ==
    /\ \E per_run \in ConfigPerRun, total \in ConfigTotal : SalesforceInit(per_run, total)
    /\ BulkIdle
    /\ SessionIdle
    /\ BuilderIdle
    /\ SchemaIdle

\* ---- check_rest_quota_usage ----------------------------------------------
\* re.search('^api-usage=(\d+)/(\d+)$', ...): only the bare usage form matches
match(header) == header.kind = "usage"

\* int((quota_percent_per_run * allotted) / 100)
max_requests_for_run(allotted) == (quota_percent_per_run * allotted) \div 100

\* (remaining / allotted) * 100 > quota_percent_total
rest_total_exceeded(remaining, allotted) ==
    remaining * 100 > quota_percent_total * allotted

\* TapSalesforceQuotaExceededException("... quota usage of ...") and
\* TapSalesforceQuotaExceededException("... quota per run of ...")
QuotaExceeded(which) ==
    [type |-> "TapSalesforceQuotaExceededException", msg |-> which]

\* variant: the per-run test is made before the total test
check_rest_quota_usage_per_run_first(header, attempted) ==
    IF header.kind = "none" THEN [type |-> "TypeError", msg |-> ""]
    ELSE IF ~match(header) THEN NoExc
    ELSE IF attempted > max_requests_for_run(header.a) THEN QuotaExceeded("quota per run")
    ELSE IF rest_total_exceeded(header.r, header.a) THEN QuotaExceeded("quota usage")
    ELSE NoExc

\* the exception check_rest_quota_usage raises, NoExc when it returns;
\* re.search on a missing header (None) is a TypeError
check_rest_quota_usage(header, attempted) ==
    IF header.kind = "none" THEN [type |-> "TypeError", msg |-> ""]
    ELSE IF ~match(header) THEN NoExc
    ELSE IF rest_total_exceeded(header.r, header.a) THEN QuotaExceeded("quota usage")
    ELSE IF attempted > max_requests_for_run(header.a) THEN QuotaExceeded("quota per run")
    ELSE NoExc

\* ---- _make_request -------------------------------------------------------
\* variant: only a header of the form api-usage=<r>/<a> is counted
attempted_after_matching(resp) ==
    IF resp.ok /\ match(resp.header)
    THEN rest_requests_attempted + 1
    ELSE rest_requests_attempted

\* the counter after the response was received
attempted_after(resp) ==
    IF resp.ok /\ resp.header.kind # "none"
    THEN rest_requests_attempted + 1
    ELSE rest_requests_attempted

\* variant: the limits are checked before the response is counted
rest_quota_exc_stale(resp) ==
    IF resp.ok /\ resp.header.kind # "none"
    THEN check_rest_quota_usage(resp.header, rest_requests_attempted)
    ELSE NoExc

\* what the call of check_rest_quota_usage in _make_request raises; NoExc
\* also when _make_request does not call it
rest_quota_exc(resp) ==
    IF resp.ok /\ resp.header.kind # "none"
    THEN check_rest_quota_usage(resp.header, attempted_after(resp))
    ELSE NoExc

\* variant: the status of the response is not checked
make_request_exc_unchecked(resp) == rest_quota_exc(resp)

\* the exception _make_request raises, NoExc when it returns resp
make_request_exc(resp) ==
    IF ~resp.ok THEN [type |-> "HTTPError", msg |-> ""]
    ELSE rest_quota_exc(resp)

\* _make_request(op on job): logs the request, receives resp, counts it
MakeRequest(op, job, resp) ==
    /\ requests' = Append(requests, [op |-> op, job |-> job, ok |-> resp.ok])
    /\ last_resp' = resp
    /\ quota_check' = rest_quota_exc(resp)
    /\ rest_requests_attempted' = attempted_after(resp)

\* raise: the exception propagates to the caller and ends the call
Raise(e) ==
    /\ pc' = "idle"
    /\ exc' = e


config == <<quota_percent_per_run, quota_percent_total>>
bulk_locals == <<job_id, batch_id, batch_status>>
result_locals == <<batch_result_list, result_idx, column_name_list, csv_stream,
                   csv_served, yielded>>
check_locals == <<jobs_completed, limits>>
http == <<rest_requests_attempted, last_resp, quota_check, requests>>
platform == <<platform_jobs, batches>>

\* a call starts with fresh locals and no pending exception
FreshLocals ==
    /\ exc' = NoExc
    /\ job_id' = 0
    /\ batch_id' = 0
    /\ batch_status' = NoStatus
    /\ batch_result_list' = <<>>
    /\ result_idx' = 0
    /\ column_name_list' = <<>>
    /\ csv_stream' = <<>>
    /\ csv_served' = <<>>
    /\ yielded' = <<>>
    /\ limits' = NoLimits
    /\ requests' = <<>>
    /\ polled' = <<>>

\* ---- bulk_query ----------------------------------------------------------
\* variant: the job is closed only after polling has ended
bulk_query_next_late_close(p) ==
    CASE p = "call" -> "create_job"
      [] p = "create_job" -> "add_batch"
      [] p = "add_batch" -> "poll_first"
      [] p = "poll_return" -> "close_job"
      [] p = "close_job" -> "check_failed"
      [] OTHER -> "idle"

\* variant: the job is closed before the batch is submitted
bulk_query_next_early_close(p) ==
    CASE p = "call" -> "create_job"
      [] p = "create_job" -> "close_job"
      [] p = "close_job" -> "add_batch"
      [] p = "add_batch" -> "poll_first"
      [] p = "poll_return" -> "check_failed"
      [] OTHER -> "idle"

\* variant: bulk_query starts with the bulk quota check
bulk_query_next_checked(p) ==
    CASE p = "call" -> "limits"
      [] p = "limits" -> "create_job"
      [] p = "create_job" -> "add_batch"
      [] p = "add_batch" -> "close_job"
      [] p = "close_job" -> "poll_first"
      [] p = "poll_return" -> "check_failed"
      [] OTHER -> "idle"

\* the statement bulk_query executes after statement p
bulk_query_next(p) ==
    CASE p = "call" -> "create_job"
      [] p = "create_job" -> "add_batch"
      [] p = "add_batch" -> "close_job"
      [] p = "close_job" -> "poll_first"
      [] p = "poll_return" -> "check_failed"
      [] OTHER -> "idle"

\* where control goes when statement p of the method in progress is done
ReturnTo(p) == IF call = "bulk_query" THEN bulk_query_next(p) ELSE "idle"

\* the caller invokes sf.bulk_query(catalog_entry, state)
CallBulkQuery ==
    /\ pc = "idle"
    /\ bulk_queries < MaxJobs
    /\ bulk_queries' = bulk_queries + 1
    /\ call' = "bulk_query"
    /\ pc' = bulk_query_next("call")
    /\ FreshLocals
    /\ jobs_completed' = 0
    /\ UNCHANGED <<config, rest_requests_attempted, last_resp, quota_check,
                   platform, checks>>
    /\ UNCHANGED outside_bulk

\* job_id = self._create_job(catalog_entry); the platform issues a fresh id
CreateJob ==
    /\ pc = "create_job"
    /\ \E resp \in Responses :
        /\ MakeRequest("createJob", IF resp.ok THEN bulk_queries ELSE 0, resp)
        /\ platform_jobs' = IF resp.ok THEN platform_jobs \cup {bulk_queries}
                            ELSE platform_jobs
        /\ IF make_request_exc(resp) # NoExc
           THEN /\ Raise(make_request_exc(resp))
                /\ UNCHANGED job_id
           ELSE /\ job_id' = bulk_queries
                /\ pc' = ReturnTo("create_job")
                /\ UNCHANGED exc
    /\ UNCHANGED <<call, config, batch_id, batch_status, result_locals,
                   check_locals, polled, batches, bulk_queries, checks>>
    /\ UNCHANGED outside_bulk

\* batch_id = self._add_batch(catalog_entry, job_id, state)
AddBatch ==
    /\ pc = "add_batch"
    /\ \E resp \in Responses :
        /\ MakeRequest("submitBatch", job_id, resp)
        /\ batches' = IF resp.ok THEN [batches EXCEPT ![job_id] = @ + 1] ELSE batches
        /\ IF make_request_exc(resp) # NoExc
           THEN /\ Raise(make_request_exc(resp))
                /\ UNCHANGED batch_id
           ELSE /\ batch_id' = batches'[job_id]
                /\ pc' = ReturnTo("add_batch")
                /\ UNCHANGED exc
    /\ UNCHANGED <<call, config, job_id, batch_status, result_locals,
                   check_locals, polled, platform_jobs, bulk_queries, checks>>
    /\ UNCHANGED outside_bulk

\* self._close_job(job_id)
CloseJob ==
    /\ pc = "close_job"
    /\ \E resp \in Responses :
        /\ MakeRequest("closeJob", job_id, resp)
        /\ IF make_request_exc(resp) # NoExc
           THEN Raise(make_request_exc(resp))
           ELSE /\ pc' = ReturnTo("close_job")
                /\ UNCHANGED exc
    /\ UNCHANGED <<call, config, bulk_locals, result_locals, check_locals,
                   polled, platform, bulk_queries, checks>>
    /\ UNCHANGED outside_bulk

\* ---- _get_batch / _poll_on_batch_status ----------------------------------
\* the statuses the platform may report on the next fetch: after MaxPolls
\* answers it has finished the batch
PlatformStatuses ==
    IF Len(polled) < MaxPolls
    THEN BatchStatuses
    ELSE {s \in BatchStatuses : s.state \in {"Completed", "Failed", "Not Processed"}}

\* batch_status = self._get_batch(job_id, batch_id)
GetBatch ==
    \E resp \in Responses :
        /\ MakeRequest("batchStatus", job_id, resp)
        /\ IF make_request_exc(resp) # NoExc
           THEN /\ Raise(make_request_exc(resp))
                /\ UNCHANGED <<batch_status, polled>>
           ELSE \E status \in PlatformStatuses :
                /\ batch_status' = status
                /\ polled' = Append(polled, status)
                /\ pc' = "poll_test"
                /\ UNCHANGED exc

\* the first fetch of _poll_on_batch_status
PollFirst ==
    /\ pc = "poll_first"
    /\ GetBatch
    /\ UNCHANGED <<call, config, job_id, batch_id, result_locals, check_locals,
                   platform, bulk_queries, checks>>
    /\ UNCHANGED outside_bulk

\* variant: 'Not Processed' is not taken as the end of the batch
continue_polling_two_states(status) ==
    status.state \notin {"Completed", "Failed"}

\* while batch_status['state'] not in ['Completed', 'Failed', 'Not Processed']
continue_polling(status) ==
    status.state \notin {"Completed", "Failed", "Not Processed"}

\* the loop test: enter the body, or leave the loop and return batch_status
PollTest ==
    /\ pc = "poll_test"
    /\ pc' = IF continue_polling(batch_status)
             THEN "poll_sleep"
             ELSE ReturnTo("poll_return")
    /\ UNCHANGED <<call, exc, config, http, bulk_locals, result_locals,
                   check_locals, polled, platform, bulk_queries, checks>>
    /\ UNCHANGED outside_bulk

\* the loop body: time.sleep(BATCH_STATUS_POLLING_SLEEP), then fetch again
PollSleep ==
    /\ pc = "poll_sleep"
    /\ GetBatch
    /\ UNCHANGED <<call, config, job_id, batch_id, result_locals, check_locals,
                   platform, bulk_queries, checks>>
    /\ UNCHANGED outside_bulk

\* if batch_status['state'] == 'Failed'
is_failed(status) == status.state = "Failed"

\* variant: the error carries the state, not the state message
failed_message_state(status) == status.state

\* raise TapSalesforceException(batch_status['stateMessage'])
failed_message(status) == status.stateMessage

\* the test after polling: raise, or return the generator to the caller,
\* who iterates it
CheckFailed ==
    /\ pc = "check_failed"
    /\ IF is_failed(batch_status)
       THEN Raise([type |-> "TapSalesforceException",
                   msg |-> failed_message(batch_status)])
       ELSE /\ pc' = "result_list"
            /\ UNCHANGED exc
    /\ UNCHANGED <<call, config, http, bulk_locals, result_locals,
                   check_locals, polled, platform, bulk_queries, checks>>
    /\ UNCHANGED outside_bulk

\* ---- _get_batch_results (a generator the caller iterates) ----------------
\* the result-list request and the parse of its XML body into n result ids
ResultList ==
    /\ pc = "result_list"
    /\ \E resp \in Responses :
        /\ MakeRequest("resultList", job_id, resp)
        /\ IF make_request_exc(resp) # NoExc
           THEN /\ Raise(make_request_exc(resp))
                /\ UNCHANGED <<batch_result_list, result_idx>>
           ELSE \E n \in 0..MaxResults :
                IF n = 0
                THEN \* <result-list/> parses to None, and None['result'] fails
                     /\ Raise([type |-> "TypeError", msg |-> ""])
                     /\ UNCHANGED <<batch_result_list, result_idx>>
                ELSE /\ batch_result_list' = [i \in 1..n |-> i]
                     /\ result_idx' = 1
                     /\ pc' = "result_fetch"
                     /\ UNCHANGED exc
    /\ UNCHANGED <<call, config, bulk_locals, column_name_list, csv_stream,
                   csv_served, yielded, check_locals, polled, platform,
                   bulk_queries, checks>>
    /\ UNCHANGED outside_bulk

\* the CSV the platform holds for a result: a header row and n data rows
CsvHeader == <<"Id", "Name">>

CsvRows == << <<"001", "Acme">>, <<"002", "Bolt">>, <<"003">>, <<"004", "Dune">> >>

CsvLine(result, k) ==
    CsvRows[(((result - 1) * MaxRows + k - 1) % Len(CsvRows)) + 1]

CsvPayload(result, n) == <<CsvHeader>> \o [k \in 1..n |-> CsvLine(result, k)]

\* zip(a, b): the pairs of the elements at the same position
RECURSIVE zip(_, _)
zip(a, b) ==
    IF a = <<>> \/ b = <<>> THEN <<>>
    ELSE <<<<Head(a), Head(b)>>>> \o zip(Tail(a), Tail(b))

\* dict(pairs): a later pair replaces an earlier one with the same key
RECURSIVE dict(_)
dict(pairs) ==
    IF pairs = <<>> THEN <<>>
    ELSE LET d == dict(SubSeq(pairs, 1, Len(pairs) - 1))
             kv == pairs[Len(pairs)]
         IN  [x \in (DOMAIN d) \cup {kv[1]} |-> IF x = kv[1] THEN kv[2] ELSE d[x]]

\* variant: the values are paired with the names one column further on
zip_record_shifted(names, line) == dict(zip(Tail(names), line))

\* rec = dict(zip(column_name_list, line))
zip_record(names, line) == dict(zip(names, line))

\* the request for one result and the read of its CSV header row
ResultFetch ==
    /\ pc = "result_fetch"
    /\ \E resp \in Responses :
        /\ MakeRequest("result", job_id, resp)
        /\ IF make_request_exc(resp) # NoExc
           THEN /\ Raise(make_request_exc(resp))
                /\ UNCHANGED <<column_name_list, csv_stream, csv_served>>
           ELSE \E n \in 0..MaxRows :
                LET csv == CsvPayload(batch_result_list[result_idx], n) IN
                /\ csv_served' = Append(csv_served, csv)
                /\ column_name_list' = Head(csv)
                /\ csv_stream' = Tail(csv)
                /\ pc' = "result_rows"
                /\ UNCHANGED exc
    /\ UNCHANGED <<call, config, bulk_locals, batch_result_list, result_idx,
                   yielded, check_locals, polled, platform, bulk_queries, checks>>
    /\ UNCHANGED outside_bulk

\* for line in csv_stream: yield rec
YieldRow ==
    /\ pc = "result_rows"
    /\ csv_stream # <<>>
    /\ yielded' = Append(yielded, zip_record(column_name_list, Head(csv_stream)))
    /\ csv_stream' = Tail(csv_stream)
    /\ UNCHANGED <<pc, call, exc, config, http, bulk_locals, batch_result_list,
                   result_idx, column_name_list, csv_served, check_locals,
                   polled, platform, bulk_queries, checks>>
    /\ UNCHANGED outside_bulk

\* the CSV stream is exhausted: go to the next result, or the generator ends
EndOfResult ==
    /\ pc = "result_rows"
    /\ csv_stream = <<>>
    /\ result_idx' = result_idx + 1
    /\ pc' = IF result_idx < Len(batch_result_list) THEN "result_fetch" ELSE "idle"
    /\ UNCHANGED <<call, exc, config, http, bulk_locals, batch_result_list,
                   column_name_list, csv_stream, csv_served, yielded,
                   check_locals, polled, platform, bulk_queries, checks>>
    /\ UNCHANGED outside_bulk

\* ---- check_bulk_quota_usage ----------------------------------------------
\* the caller invokes sf.check_bulk_quota_usage(jobs_completed)
CallCheckBulkQuota ==
    /\ pc = "idle"
    /\ checks < MaxChecks
    /\ checks' = checks + 1
    /\ \E n \in 0..MaxJobsCompleted : jobs_completed' = n
    /\ call' = "check_bulk_quota_usage"
    /\ pc' = "limits"
    /\ FreshLocals
    /\ UNCHANGED <<config, rest_requests_attempted, last_resp, quota_check,
                   platform, bulk_queries>>
    /\ UNCHANGED outside_bulk

\* variant: the remaining share is compared, as the REST check does
bulk_total_exceeded_remaining(quota_max, quota_remaining) ==
    quota_remaining * 100 > quota_percent_total * quota_max

\* (1 - (quota_remaining / quota_max)) * 100 > quota_percent_total
bulk_total_exceeded(quota_max, quota_remaining) ==
    (quota_max - quota_remaining) * 100 > quota_percent_total * quota_max

\* the exception raised on the limits answer, NoExc on return
bulk_quota_exc(quota_max, quota_remaining, completed) ==
    IF bulk_total_exceeded(quota_max, quota_remaining) THEN QuotaExceeded("quota usage")
    ELSE IF completed > max_requests_for_run(quota_max) THEN QuotaExceeded("quota per run")
    ELSE NoExc

\* the limits request and the two threshold tests
Limits ==
    /\ pc = "limits"
    /\ \E resp \in Responses :
        /\ MakeRequest("limits", 0, resp)
        /\ IF make_request_exc(resp) # NoExc
           THEN /\ Raise(make_request_exc(resp))
                /\ UNCHANGED limits
           ELSE \E m \in 1..MaxAllotted, r \in 0..MaxAllotted :
                /\ limits' = [Max |-> m, Remaining |-> r]
                /\ IF bulk_quota_exc(m, r, jobs_completed) # NoExc
                   THEN Raise(bulk_quota_exc(m, r, jobs_completed))
                   ELSE /\ pc' = ReturnTo("limits")
                        /\ UNCHANGED exc
    /\ UNCHANGED <<call, config, bulk_locals, result_locals, jobs_completed,
                   polled, platform, bulk_queries, checks>>
    /\ UNCHANGED outside_bulk

\* ---- the system ----------------------------------------------------------
Next ==
    \/ CallBulkQuery
    \/ CreateJob
    \/ AddBatch
    \/ CloseJob
    \/ PollFirst
    \/ PollTest
    \/ PollSleep
    \/ CheckFailed
    \/ ResultList
    \/ ResultFetch
    \/ YieldRow
    \/ EndOfResult
    \/ CallCheckBulkQuota
    \/ Limits

Spec == Init /\ [][Next]_vars

TypeOK ==
    /\ pc \in {"idle", "create_job", "add_batch", "close_job", "poll_first",
               "poll_test", "poll_sleep", "check_failed", "result_list",
               "result_fetch", "result_rows", "limits"}
    /\ rest_requests_attempted \in Nat
    /\ last_resp \in Responses

\* ---- login and the renewal timer -----------------------------------------
\* The caller's thread and the Timer threads share access_token and
\* instance_url without a lock, so every read and every write of the two
\* attributes is a step of its own.  A login generation is the pair the
\* OAuth server returns for one grant; the generations are numbered
\* 1..NumGenerations and reused cyclically.

\* what the session actions leave alone
outside_session == <<bulk_state, builder_state, schema_state>>

NextGeneration(g) == (g % NumGenerations) + 1

\* variant: the timer is created with the polling interval
new_timer_polling_interval ==
    [pc |-> "wait", interval |-> BATCH_STATUS_POLLING_SLEEP, auth |-> 0]

\* threading.Timer(REFRESH_TOKEN_EXPIRATION_PERIOD, self.login)
new_timer ==
    [pc |-> "wait", interval |-> REFRESH_TOKEN_EXPIRATION_PERIOD, auth |-> 0]

\* variant: two timers are started by one login
start_timer_twice(ts) == ts (+) SetToBag({new_timer}) (+) SetToBag({new_timer})

\* self.login_timer.start(): one more live Timer thread
start_timer(ts) == ts (+) SetToBag({new_timer})

\* the Timer thread t has moved on and is now u
Replace(ts, t, u) == (ts (-) SetToBag({t})) (+) SetToBag({u})

fg_request_locals == <<headers, url, at_start, sent>>

\* the caller invokes sf.login()
CallLogin ==
    /\ fg_pc = "ready"
    /\ caller_logins < MaxCallerLogins
    /\ caller_logins' = caller_logins + 1
    /\ fg_pc' = "login_post"
    /\ UNCHANGED <<access_token, instance_url, timers, issued, fg_exc, auth,
                   fg_request_locals, renewal_failed>>
    /\ UNCHANGED outside_session

\* resp = self.session.post(login_url, ...); resp.raise_for_status()
LoginPost ==
    /\ fg_pc = "login_post"
    /\ \E ok \in BOOLEAN :
        IF ok
        THEN /\ issued' = NextGeneration(issued)
             /\ auth' = issued'
             /\ fg_pc' = "login_token"
             /\ UNCHANGED fg_exc
        ELSE /\ fg_exc' = [type |-> "HTTPError", msg |-> ""]
             /\ fg_pc' = "done"
             /\ UNCHANGED <<issued, auth>>
    /\ UNCHANGED <<access_token, instance_url, timers, fg_request_locals,
                   caller_logins, renewal_failed>>
    /\ UNCHANGED outside_session

\* self.access_token = auth['access_token']
LoginSetToken ==
    /\ fg_pc = "login_token"
    /\ access_token' = auth
    /\ fg_pc' = "login_url"
    /\ UNCHANGED <<instance_url, timers, issued, fg_exc, auth,
                   fg_request_locals, caller_logins, renewal_failed>>
    /\ UNCHANGED outside_session

\* self.instance_url = auth['instance_url']
LoginSetUrl ==
    /\ fg_pc = "login_url"
    /\ instance_url' = auth
    /\ fg_pc' = "login_timer"
    /\ UNCHANGED <<access_token, timers, issued, fg_exc, auth,
                   fg_request_locals, caller_logins, renewal_failed>>
    /\ UNCHANGED outside_session

\* self.login_timer = threading.Timer(...); self.login_timer.start(); return
LoginStartTimer ==
    /\ fg_pc = "login_timer"
    /\ timers' = start_timer(timers)
    /\ auth' = 0
    /\ fg_pc' = "ready"
    /\ UNCHANGED <<access_token, instance_url, issued, fg_exc,
                   fg_request_locals, caller_logins, renewal_failed>>
    /\ UNCHANGED outside_session

foreground == <<fg_pc, fg_exc, auth, fg_request_locals, caller_logins>>

\* the interval of a Timer has passed: its thread calls self.login()
TimerFire ==
    /\ \E t \in BagToSet(timers) :
        /\ t.pc = "wait"
        /\ timers' = Replace(timers, t, [t EXCEPT !.pc = "post"])
    /\ UNCHANGED <<access_token, instance_url, issued, foreground, renewal_failed>>
    /\ UNCHANGED outside_session

\* login in a Timer thread: the post; an exception ends the thread only
RenewalPost ==
    /\ \E t \in BagToSet(timers) :
        /\ t.pc = "post"
        /\ \E ok \in BOOLEAN :
            IF ok
            THEN /\ issued' = NextGeneration(issued)
                 /\ timers' = Replace(timers, t,
                                      [t EXCEPT !.pc = "token", !.auth = issued'])
                 /\ UNCHANGED renewal_failed
            ELSE /\ timers' = timers (-) SetToBag({t})
                 /\ renewal_failed' = TRUE
                 /\ UNCHANGED issued
    /\ UNCHANGED <<access_token, instance_url, foreground>>
    /\ UNCHANGED outside_session

\* login in a Timer thread: self.access_token = auth['access_token']
RenewalSetToken ==
    /\ \E t \in BagToSet(timers) :
        /\ t.pc = "token"
        /\ access_token' = t.auth
        /\ timers' = Replace(timers, t, [t EXCEPT !.pc = "url"])
    /\ UNCHANGED <<instance_url, issued, foreground, renewal_failed>>
    /\ UNCHANGED outside_session

\* login in a Timer thread: self.instance_url = auth['instance_url']
RenewalSetUrl ==
    /\ \E t \in BagToSet(timers) :
        /\ t.pc = "url"
        /\ instance_url' = t.auth
        /\ timers' = Replace(timers, t, [t EXCEPT !.pc = "start"])
    /\ UNCHANGED <<access_token, issued, foreground, renewal_failed>>
    /\ UNCHANGED outside_session

\* login in a Timer thread: the next Timer is started and the thread ends
RenewalStartTimer ==
    /\ \E t \in BagToSet(timers) :
        /\ t.pc = "start"
        /\ timers' = start_timer(timers (-) SetToBag({t}))
    /\ UNCHANGED <<access_token, instance_url, issued, foreground, renewal_failed>>
    /\ UNCHANGED outside_session

session_shared == <<access_token, instance_url, timers, issued, fg_exc, auth,
                    caller_logins, renewal_failed>>

\* self.session.get/post(url, headers=headers): the request leaves with the
\* token in its headers and the instance url its url was formatted from
SendRequest(op, token, instance, start) ==
    /\ sent' = [op |-> op,
                consistent |-> (token = instance),
                fresh |-> (token \in {start, access_token})]
    /\ fg_pc' = "sent"

\* describe: headers = self._get_standard_headers()
DescribeHeaders ==
    /\ fg_pc = "ready"
    /\ headers' = access_token
    /\ at_start' = access_token
    /\ fg_pc' = "describe_url"
    /\ UNCHANGED <<session_shared, url, sent>>
    /\ UNCHANGED outside_session

\* describe: url = self.data_url.format(self.instance_url, ...); the request
DescribeRequest ==
    /\ fg_pc = "describe_url"
    /\ url' = instance_url
    /\ SendRequest("describe", headers, instance_url, at_start)
    /\ UNCHANGED <<session_shared, headers, at_start>>
    /\ UNCHANGED outside_session

\* _get_batch: url = self.bulk_url.format(self.instance_url, endpoint)
GetBatchUrl ==
    /\ fg_pc = "ready"
    /\ url' = instance_url
    /\ at_start' = access_token
    /\ fg_pc' = "get_batch_headers"
    /\ UNCHANGED <<session_shared, headers, sent>>
    /\ UNCHANGED outside_session

\* _get_batch: headers = self._get_bulk_headers(); the request
GetBatchRequest ==
    /\ fg_pc = "get_batch_headers"
    /\ headers' = access_token
    /\ SendRequest("batchStatus", access_token, url, at_start)
    /\ UNCHANGED <<session_shared, url, at_start>>
    /\ UNCHANGED outside_session

\* _get_batch_results: headers = self._get_bulk_headers()
BatchResultHeaders ==
    /\ fg_pc = "ready"
    /\ headers' = access_token
    /\ at_start' = access_token
    /\ fg_pc' = "result_list_url"
    /\ UNCHANGED <<session_shared, url, sent>>
    /\ UNCHANGED outside_session

\* _get_batch_results: the url and the request for the result list
BatchResultRequest ==
    /\ fg_pc = "result_list_url"
    /\ url' = instance_url
    /\ SendRequest("resultList", headers, instance_url, at_start)
    /\ UNCHANGED <<session_shared, headers, at_start>>
    /\ UNCHANGED outside_session

\* _get_batch_results, in the loop: a new url, the headers of the result list
NextResultRequest ==
    /\ fg_pc = "stream"
    /\ url' = instance_url
    /\ at_start' = access_token
    /\ SendRequest("result", headers, instance_url, access_token)
    /\ UNCHANGED <<session_shared, headers>>
    /\ UNCHANGED outside_session

\* the response has arrived; the locals of the finished function are gone
Return ==
    /\ fg_pc = "sent"
    /\ LET streaming == sent.op \in {"resultList", "result"} IN
       /\ fg_pc' = (IF streaming THEN "stream" ELSE "ready")
       /\ headers' = (IF streaming THEN headers ELSE 0)
    /\ url' = 0
    /\ at_start' = 0
    /\ sent' = NoSent
    /\ UNCHANGED session_shared
    /\ UNCHANGED outside_session

\* the generator of _get_batch_results is exhausted
EndStream ==
    /\ fg_pc = "stream"
    /\ headers' = 0
    /\ fg_pc' = "ready"
    /\ UNCHANGED <<session_shared, url, at_start, sent>>
    /\ UNCHANGED outside_session

\* the foreground run is over: the main thread has nothing left to do
Finish ==
    /\ fg_pc = "ready"
    /\ fg_pc' = "done"
    /\ UNCHANGED <<session_shared, fg_request_locals>>
    /\ UNCHANGED outside_session

LoginInit ==
    /\ SalesforceInit(0, 0)
    /\ BulkIdle
    /\ SessionIdle
    /\ BuilderIdle
    /\ SchemaIdle

LoginNext ==
    \/ CallLogin
    \/ LoginPost
    \/ LoginSetToken
    \/ LoginSetUrl
    \/ LoginStartTimer
    \/ TimerFire
    \/ RenewalPost
    \/ RenewalSetToken
    \/ RenewalSetUrl
    \/ RenewalStartTimer
    \/ DescribeHeaders
    \/ DescribeRequest
    \/ GetBatchUrl
    \/ GetBatchRequest
    \/ BatchResultHeaders
    \/ BatchResultRequest
    \/ NextResultRequest
    \/ Return
    \/ EndStream
    \/ Finish

LoginSpec == LoginInit /\ [][LoginNext]_vars

\* a started Timer fires when its interval has passed and the threads of the
\* process are scheduled; nothing obliges the caller to go on
FairLogin ==
    /\ LoginInit
    /\ [][LoginNext]_vars
    /\ WF_vars(TimerFire)
    /\ WF_vars(RenewalPost)
    /\ WF_vars(RenewalSetToken)
    /\ WF_vars(RenewalSetUrl)
    /\ WF_vars(RenewalStartTimer)

\* ---- _build_bulk_query_batch ---------------------------------------------
\* A query is the sequence of the pieces str.format and str.join put
\* together; a missing value formats as "None".

FieldNames == {"Id", "Name", "SystemModstamp"}

\* one entry of catalog_entry.schema.properties
Properties == [name : FieldNames, selected : BOOLEAN, inclusion : {"automatic", "available"}]

\* the properties dict: at most MaxFields entries, in catalog order, keys distinct
PropertyLists ==
    {ps \in UNION {[1..n -> Properties] : n \in 0..MaxFields} :
        \A i, j \in 1..Len(ps) : i # j => ps[i].name # ps[j].name}

\* catalog entries; replication_key "" stands for None
CatalogEntries ==
    [stream : {"Account"}, replication_key : {"", "SystemModstamp"},
     properties : PropertyLists]

\* the bookmarks of the stream in state: none, one for the replication key,
\* one for another key
States ==
    {{}, {<<"SystemModstamp", "2017-01-01T00:00:00Z">>},
     {<<"LastModifiedDate", "2017-01-01T00:00:00Z">>}}

\* singer.get_bookmark(state, tap_stream_id, key): None when there is none
get_bookmark(st, key) ==
    IF \E b \in st : b[1] = key
    THEN (CHOOSE b \in st : b[1] = key)[2]
    ELSE "None"

\* [k for k, v in properties.items() if v.selected or v.inclusion == 'automatic']
RECURSIVE selected_properties(_)
selected_properties(ps) ==
    IF ps = <<>> THEN <<>>
    ELSE (IF Head(ps).selected \/ Head(ps).inclusion = "automatic"
          THEN <<Head(ps).name>> ELSE <<>>)
         \o selected_properties(Tail(ps))

\* ",".join(names)
RECURSIVE join(_)
join(names) ==
    IF names = <<>> THEN <<>>
    ELSE IF Len(names) = 1 THEN names
    ELSE <<Head(names), ",">> \o join(Tail(names))

\* the where clause of _build_bulk_query_batch
where_clause(entry, st) ==
    IF entry.replication_key # ""
    THEN <<" WHERE ", entry.replication_key, " >= ",
           get_bookmark(st, entry.replication_key),
           " ORDER BY ", entry.replication_key, " ASC">>
    ELSE <<>>

build_bulk_query_batch(entry, st) ==
    (<<"SELECT ">> \o join(selected_properties(entry.properties))
        \o <<" FROM ", entry.stream>>)
    \o where_clause(entry, st)

\* body = self._build_bulk_query_batch(catalog_entry, state)
BuildQuery ==
    /\ query = <<>>
    /\ query' = build_bulk_query_batch(catalog_entry, state)
    /\ UNCHANGED <<catalog_entry, state>>
    /\ UNCHANGED <<bulk_state, session_state, schema_state>>

\* ---- sf_type_to_property_schema ------------------------------------------
\* A JSON-schema type is written as the list of its type names: <<"string">>
\* for "string", <<"null", "string">> for ["null", "string"].

STRING_TYPES ==
    {"id", "string", "picklist", "textarea", "phone", "url", "reference",
     "multipicklist", "combobox", "encryptedstring", "email", "complexvalue"}

NUMBER_TYPES == {"double", "currency", "percent"}

DATE_TYPES == {"datetime", "date"}

\* labels no branch of the function knows
UnknownTypes == {"location", "json"}

SfTypes ==
    STRING_TYPES \cup NUMBER_TYPES \cup DATE_TYPES
    \cup {"boolean", "address", "int", "time", "anyType", "base64"}
    \cup UnknownTypes

Inclusions == {"available", "automatic"}

\* variant: the type is left as mapped whatever nillable is
widen_never(type, is_nillable) == <<type>>

\* if nillable: property_schema['type'] = ["null", property_schema['type']]
widen(type, is_nillable) == IF is_nillable THEN <<"null", type>> ELSE <<type>>

Returned(schema) == [called |-> TRUE, raises |-> "None", schema |-> schema]

sf_type_to_property_schema(type, is_nillable, incl, sel) ==
    LET base == [inclusion |-> incl, selected |-> sel]
        typed(t) == Returned(base @@ [type |-> widen(t, is_nillable)])
    IN  IF type \in STRING_TYPES THEN typed("string")
        ELSE IF type \in DATE_TYPES
            THEN Returned(base @@ [format |-> "date-time",
                                   type |-> widen("string", is_nillable)])
        ELSE IF type = "boolean" THEN typed("boolean")
        ELSE IF type \in NUMBER_TYPES THEN typed("number")
        ELSE IF type = "address" THEN typed("string")
        ELSE IF type = "int" THEN typed("integer")
        ELSE IF type = "time" THEN typed("string")
        ELSE IF type = "anyType" THEN Returned(base)
        ELSE IF type = "base64"
            THEN Returned([inclusion |-> "unsupported", selected |-> sel])
        ELSE [called |-> TRUE, raises |-> "TapSalesforceException",
              schema |-> base]

\* property_schema = sf_type_to_property_schema(sf_type, nillable, inclusion, selected)
TranslateType ==
    /\ ~property_schema.called
    /\ property_schema' = sf_type_to_property_schema(sf_type, nillable, inclusion, selected)
    /\ UNCHANGED <<sf_type, nillable, inclusion, selected>>
    /\ UNCHANGED <<bulk_state, session_state, builder_state>>

\* ---- the pure functions, applied to every input of the bounded sets ------
QueryInit ==
    /\ SalesforceInit(0, 0)
    /\ BulkIdle
    /\ SessionIdle
    /\ SchemaIdle
    /\ catalog_entry \in CatalogEntries
    /\ state \in States
    /\ query = <<>>

QueryNext == BuildQuery

QuerySpec == QueryInit /\ [][QueryNext]_vars

SchemaInit ==
    /\ SalesforceInit(0, 0)
    /\ BulkIdle
    /\ SessionIdle
    /\ BuilderIdle
    /\ sf_type \in SfTypes
    /\ nillable \in BOOLEAN
    /\ inclusion \in Inclusions
    /\ selected \in BOOLEAN
    /\ property_schema = NotCalled

SchemaNext == TranslateType

SchemaSpec == SchemaInit /\ [][SchemaNext]_vars

\* ---- properties ----------------------------------------------------------
Last(seq) == seq[Len(seq)]

Issued(op) == {i \in 1..Len(requests) : requests[i].op = op}

Terminal == {"Completed", "Failed", "Not Processed"}

\* C1: the requests of a bulk_query run are issued in the order createJob,
\* submitBatch, closeJob, batch-status polling: a batch is submitted only to
\* a job created before, closeJob comes after the job's submitBatch and
\* before every batch-status fetch, and every batch-status fetch comes after
\* the job's closeJob.
C1_RequestOrder ==
    \A i \in 1..Len(requests) :
        LET EarlierOnJob(op) ==
                \E k \in 1..(i - 1) :
                    requests[k].op = op /\ requests[k].job = requests[i].job
        IN  /\ requests[i].op = "submitBatch" => EarlierOnJob("createJob")
            /\ requests[i].op = "closeJob" =>
                   /\ EarlierOnJob("submitBatch")
                   /\ \A k \in 1..(i - 1) : requests[k].op # "batchStatus"
            /\ requests[i].op = "batchStatus" => EarlierOnJob("closeJob")

\* C1 witness: a run has created, submitted, closed and polled twice
C1_Witness ==
    /\ Cardinality(Issued("batchStatus")) >= 2
    /\ Issued("closeJob") # {}

\* the positions of bulk_query after _poll_on_batch_status has returned
AfterPoll == {"check_failed", "result_list", "result_fetch", "result_rows"}

C2_Inv ==
    /\ \A i \in 1..(Len(polled) - 1) : polled[i].state \notin Terminal
    /\ pc \in AfterPoll =>
           /\ polled # <<>>
           /\ batch_status = Last(polled)
           /\ batch_status.state \in Terminal
    /\ pc = "poll_sleep" =>
           /\ polled # <<>>
           /\ Last(polled).state \notin Terminal

C2_Step ==
    /\ (pc = "poll_test" /\ batch_status.state \notin Terminal) =>
           pc' = "poll_sleep"
    /\ (pc = "poll_test" /\ batch_status.state \in Terminal) =>
           /\ pc' \in AfterPoll
           /\ requests' = requests
    /\ pc = "poll_sleep" =>
           /\ Len(requests') = Len(requests) + 1
           /\ Last(requests').op = "batchStatus"

\* C2: _poll_on_batch_status returns exactly on a terminal batch state: no
\* status but the last one fetched is terminal, the status it returns is the
\* last one fetched and is terminal, the loop body is entered only on a
\* non-terminal status, and a step of the loop returns without another
\* request on a terminal status and otherwise sleeps and fetches again,
\* however many fetches came before.
C2_PollTerminates == [](C2_Inv) /\ [][C2_Step]_vars

\* C2 witness: the poll returned after MaxPolls non-terminal answers
C2_Witness ==
    /\ pc = "check_failed"
    /\ Len(polled) = MaxPolls + 1
    /\ batch_status.state = "Not Processed"

\* C3: when polling ended with the batch Failed, bulk_query raises
\* TapSalesforceException with the platform's stateMessage as message and
\* issues no result-list or result request.
C3_FailedSurfaces ==
    (polled # <<>> /\ Last(polled).state = "Failed") =>
        /\ Issued("resultList") = {}
        /\ Issued("result") = {}
        /\ pc \in {"poll_test", "check_failed", "idle"}
        /\ pc = "idle" =>
               exc = [type |-> "TapSalesforceException",
                      msg |-> Last(polled).stateMessage]

\* C3 witness: bulk_query has raised the state message of a failed batch
C3_Witness ==
    /\ pc = "idle"
    /\ polled # <<>>
    /\ Last(polled) = [state |-> "Failed", stateMessage |-> "QueryTimeout"]
    /\ exc.msg = "QueryTimeout"

\* C4: when polling ended with the batch Not Processed and every request was
\* answered 2xx within quota, the finished run has yielded no rows and has
\* raised no error.
C4_NotProcessedIsEmpty ==
    (/\ pc = "idle"
     /\ polled # <<>>
     /\ Last(polled).state = "Not Processed"
     /\ exc.type \notin {"HTTPError", "TapSalesforceQuotaExceededException"}) =>
        /\ yielded = <<>>
        /\ exc = NoExc

\* the job of the bulk_query call is still between createJob and submitBatch
InProgress(j) == call = "bulk_query" /\ j = bulk_queries /\ pc = "add_batch"

\* C5 as stated: every created job has exactly one batch, none is left
\* without a batch once its run is past submitBatch.
C5_ExactlyOneBatch ==
    \A j \in platform_jobs : ~InProgress(j) => batches[j] = 1

\* C5 amended: no job ever has two batches, and a job for which bulk_query
\* went on to closeJob, polling or results has exactly one.
C5_AtMostOneBatch ==
    /\ \A j \in platform_jobs : batches[j] <= 1
    /\ \A i \in 1..Len(requests) :
           requests[i].op \in {"closeJob", "batchStatus", "resultList", "result"} =>
               /\ requests[i].job \in platform_jobs
               /\ batches[requests[i].job] = 1

\* C5 witness: a run is over whose job was closed with its one batch
C5_Witness ==
    /\ pc = "idle"
    /\ Issued("closeJob") # {}
    /\ job_id \in platform_jobs
    /\ batches[job_id] = 1

\* C6 as stated: whenever bulk_query has issued createJob, a bulk quota check
\* was made for that job (one check per bulk_query call so far).
C6_CheckedBeforeJob ==
    (call = "bulk_query" /\ Issued("createJob") # {}) => checks >= bulk_queries

\* C6 amended: bulk_query makes no bulk quota check; its first request is
\* createJob and it issues no limits request; a limits request is issued
\* only by check_bulk_quota_usage, one per call, when the caller invokes it.
C6_CheckLeftToCaller ==
    /\ Issued("limits") # {} => call = "check_bulk_quota_usage"
    /\ (call = "bulk_query" /\ requests # <<>>) => requests[1].op = "createJob"
    /\ call = "check_bulk_quota_usage" =>
           /\ Len(requests) <= 1
           /\ Issued("limits") = DOMAIN requests
           /\ pc = "idle" => Len(requests) = 1

\* C6 witness: a job was created and polled without any bulk quota check
C6_Witness ==
    /\ checks = 0
    /\ call = "bulk_query"
    /\ Issued("batchStatus") # {}

\* the last response was 2xx with a header of the form api-usage=<r>/<a>
UsageReported == last_resp.ok /\ last_resp.header.kind = "usage"

\* C7: for a header api-usage=<r>/<a>, check_rest_quota_usage raises the
\* total-quota error exactly when r/a*100 > quota_percent_total, whatever the
\* value of the counter and whatever calls came before.
C7_TotalQuota ==
    UsageReported =>
        (quota_check = QuotaExceeded("quota usage")
            <=> last_resp.header.r * 100 > quota_percent_total * last_resp.header.a)

\* C7 witness: the total-quota error on a later request, with the counter
\* over the per-run allowance as well
C7_Witness ==
    /\ UsageReported
    /\ quota_check = QuotaExceeded("quota usage")
    /\ rest_requests_attempted >= 2
    /\ rest_requests_attempted > (quota_percent_per_run * last_resp.header.a) \div 100

\* C8: the per-run error is raised only if the counter, which includes the
\* response being checked, exceeds floor(quota_percent_per_run*allotted/100);
\* when it exceeds it a quota-exceeded error is raised; and when the total
\* limit is not exceeded the per-run error is raised exactly in that case.
C8_PerRunQuota ==
    UsageReported =>
        LET allowance == (quota_percent_per_run * last_resp.header.a) \div 100
            over == rest_requests_attempted > allowance
            total == last_resp.header.r * 100 > quota_percent_total * last_resp.header.a
        IN  /\ quota_check = QuotaExceeded("quota per run") => over
            /\ over => quota_check.type = "TapSalesforceQuotaExceededException"
            /\ ~total => (quota_check = QuotaExceeded("quota per run") <=> over)

\* C8 witness: the counter is one over a positive allowance and the per-run
\* error was raised
C8_Witness ==
    /\ UsageReported
    /\ quota_check = QuotaExceeded("quota per run")
    /\ (quota_percent_per_run * last_resp.header.a) \div 100 >= 1
    /\ rest_requests_attempted = (quota_percent_per_run * last_resp.header.a) \div 100 + 1

\* a step that issues a request
RequestStep == Len(requests') = Len(requests) + 1

\* C9 as stated: the counter grows by one exactly for a response whose
\* header has the form api-usage=<r>/<a>; any other response leaves it
\* unchanged and raises no quota error.
C9_CountsMatchingHeader ==
    [][RequestStep =>
         IF last_resp'.header.kind = "usage"
         THEN rest_requests_attempted' = rest_requests_attempted + 1
         ELSE /\ rest_requests_attempted' = rest_requests_attempted
              /\ quota_check' = NoExc]_vars

\* C9 amended: the counter grows by one exactly for a 2xx response that
\* carries a Sforce-Limit-Info header, whatever its form; a response without
\* the header, and a non-2xx response, leave it unchanged; a quota error is
\* raised only for a 2xx response whose header has the form api-usage=<r>/<a>.
C9_CountsAnyHeader ==
    [][RequestStep =>
         /\ rest_requests_attempted' =
                rest_requests_attempted
                + (IF last_resp'.ok /\ last_resp'.header.kind # "none" THEN 1 ELSE 0)
         /\ ~(last_resp'.ok /\ last_resp'.header.kind = "usage") =>
                quota_check' = NoExc]_vars

\* C9 witness: a 2xx response with a header of another form was counted and
\* the call went on
C9_Witness ==
    /\ last_resp = [ok |-> TRUE, header |-> PerAppHeader]
    /\ rest_requests_attempted >= 1
    /\ pc = "add_batch"

\* the call of check_bulk_quota_usage has read max and remaining and ended
BulkCheckDone ==
    call = "check_bulk_quota_usage" /\ pc = "idle" /\ limits # NoLimits

\* C10: once the limits call has returned max and remaining,
\* check_bulk_quota_usage raises a quota-exceeded error if and only if
\* (1 - remaining/max)*100 > quota_percent_total or
\* jobs_completed > floor(quota_percent_per_run*max/100), and returns
\* without error otherwise.
C10_BulkQuota ==
    BulkCheckDone =>
        LET exceeded ==
                \/ (limits.Max - limits.Remaining) * 100 > quota_percent_total * limits.Max
                \/ jobs_completed > (quota_percent_per_run * limits.Max) \div 100
        IN  /\ exceeded <=> exc.type = "TapSalesforceQuotaExceededException"
            /\ ~exceeded => exc = NoExc

\* C10 witness: the check returned with part of the quota used and a job
\* completed
C10_Witness ==
    /\ BulkCheckDone
    /\ exc = NoExc
    /\ limits.Remaining < limits.Max
    /\ jobs_completed >= 1

\* C15: a non-2xx answer to createJob, submitBatch, closeJob or a
\* batch-status fetch ends bulk_query with the HTTP error: the failed request
\* is the last request of the run, so it is not issued again and no later
\* step of the sequence is issued.
C15_ErrorPropagates ==
    \A i \in 1..Len(requests) :
        (/\ requests[i].op \in {"createJob", "submitBatch", "closeJob", "batchStatus"}
         /\ ~requests[i].ok) =>
            /\ i = Len(requests)
            /\ pc = "idle"
            /\ exc = [type |-> "HTTPError", msg |-> ""]

\* C15 witness: the second batch-status fetch of a run was answered non-2xx
C15_Witness ==
    /\ Len(requests) = 5
    /\ requests[5] = [op |-> "batchStatus", job |-> 1, ok |-> FALSE]
    /\ exc.type = "HTTPError"

\* the header and the data line of every data row served so far, in order
RECURSIVE ServedLines(_)
ServedLines(served) ==
    IF served = <<>> THEN <<>>
    ELSE LET csv == Head(served) IN
         [k \in 1..(Len(csv) - 1) |-> <<csv[1], csv[k + 1]>>]
             \o ServedLines(Tail(served))

\* rec maps each name of the header to the value at its position in line
IsZipOf(rec, header, line) ==
    LET n == IF Len(header) < Len(line) THEN Len(header) ELSE Len(line) IN
    /\ DOMAIN rec = {header[j] : j \in 1..n}
    /\ \A j \in 1..n : rec[header[j]] = line[j]

Waiting(ts) == BagCardinality([t \in {x \in BagToSet(ts) : x.pc = "wait"} |-> ts[t]])

\* C11: every request is built from the access_token and the instance_url
\* of one login generation, under every interleaving of a renewal login
\* with the foreground request path.
C11_ConsistentPair == sent # NoSent => sent.consistent

\* C12: a login answered non-2xx raises, is not retried and starts no timer,
\* and once a renewal login has failed the foreground issues no request.
C12_FailedRenewalFatal ==
    [][/\ (renewal_failed' /\ ~renewal_failed) =>
              /\ BagCardinality(timers') = BagCardinality(timers) - 1
              /\ Waiting(timers') = Waiting(timers)
       /\ (fg_exc' # NoExc /\ fg_exc = NoExc) =>
              /\ timers' = timers
              /\ fg_pc' = "done"
       /\ renewal_failed => ~(sent = NoSent /\ sent' # NoSent)]_vars

\* every live Timer was created with the 900-second interval
C13_Interval == \A t \in BagToSet(timers) : t.interval = 900

\* the last step of a successful login leaves one more waiting Timer, and
\* the caller's login returns at once
C13_Step ==
    /\ (fg_pc = "login_timer" /\ fg_pc' # fg_pc) =>
           /\ fg_pc' = "ready"
           /\ Waiting(timers') = Waiting(timers) + 1
    /\ (\E t \in BagToSet(timers) :
            t.pc = "start" /\ CopiesIn(t, timers') < CopiesIn(t, timers)) =>
           Waiting(timers') = Waiting(timers) + 1

RenewalInvoked == \E t \in BagToSet(timers) : t.pc = "post"

\* C13: a successful login starts a Timer of 900 seconds that calls login
\* again, the caller's login returns without waiting for it, and while
\* renewals succeed login is invoked again and again.
C13_RenewalRepeats ==
    /\ [](C13_Interval)
    /\ [][C13_Step]_vars
    /\ []<>(timers = EmptyBag \/ RenewalInvoked)

\* C13 witness: the login of the second generation, run by a Timer thread,
\* is about to start the next Timer while the caller has a request in flight
C13_Witness ==
    /\ \E t \in BagToSet(timers) : t.pc = "start" /\ t.auth = 2
    /\ fg_pc = "sent"

\* C14: once the foreground run has finished, a state is reached in which
\* no renewal Timer is pending, so that the process can end; a Timer is
\* pending from its start until the login it calls has returned.
C14_NoTimerLeft == (fg_pc = "done") ~> (timers = EmptyBag)

\* C19: every request carries the access token that is current in the
\* session when the request is issued (the token of the session at the
\* start of the request's code or at its sending).
C19_CurrentToken == sent # NoSent => sent.fresh

\* C20: the live Timer threads never outnumber the caller's login calls, so
\* after one call of login at most one Timer is pending; a Timer is never
\* cancelled: a renewal chain ends only by a failed renewal login.
C20_OneChainPerLogin ==
    /\ [](/\ BagCardinality(timers) <= caller_logins
          /\ caller_logins = 1 => Waiting(timers) <= 1)
    /\ [][BagCardinality(timers') < BagCardinality(timers) =>
              (renewal_failed' /\ BagCardinality(timers') = BagCardinality(timers) - 1)]_vars

\* C20 witness: after one call of login the Timer of a renewal is pending
C20_Witness ==
    /\ caller_logins = 1
    /\ access_token = 2
    /\ instance_url = 2
    /\ Waiting(timers) = 1

\* ---- properties of the pure functions ------------------------------------
\* the query the description of _build_bulk_query_batch asks for
RECURSIVE FieldList(_)
FieldList(ps) ==
    IF ps = <<>> THEN <<>>
    ELSE LET p == Head(ps)
             rest == FieldList(Tail(ps))
         IN  IF p.selected \/ p.inclusion = "automatic"
             THEN (IF rest = <<>> THEN <<p.name>> ELSE <<p.name, ",">> \o rest)
             ELSE rest

HasBookmark(st, key) == \E b \in st : b[1] = key

\* C16: the query is SELECT <fields> FROM <object> with the selected or
\* automatic fields in catalog order, followed by WHERE <key> >= <bookmark>
\* ORDER BY <key> ASC exactly when a replication key is configured and a
\* bookmark for it exists in state; otherwise it has no WHERE/ORDER clause.
C16_WhereIffBookmark ==
    query # <<>> =>
        LET key == catalog_entry.replication_key
            select == <<"SELECT ">> \o FieldList(catalog_entry.properties)
                          \o <<" FROM ", catalog_entry.stream>>
        IN  IF key # "" /\ HasBookmark(state, key)
            THEN query = select \o <<" WHERE ", key, " >= ",
                                     (CHOOSE b \in state : b[1] = key)[2],
                                     " ORDER BY ", key, " ASC">>
            ELSE query = select

MappedType(label) ==
    IF label \in {"id", "string", "picklist", "textarea", "phone", "url",
                  "reference", "multipicklist", "combobox", "encryptedstring",
                  "email", "complexvalue", "address", "time", "date", "datetime"}
    THEN "string"
    ELSE IF label \in {"double", "currency", "percent"} THEN "number"
    ELSE IF label = "boolean" THEN "boolean"
    ELSE IF label = "int" THEN "integer"
    ELSE "none"

\* C18: string-like labels, address and time map to string, double, currency
\* and percent to number, date and datetime to string with format date-time,
\* boolean to boolean, int to integer; anyType gives a schema with no type,
\* base64 gives inclusion "unsupported", any other label raises; a mapped
\* type is widened with null exactly when nillable is true.
C18_TypeMapping ==
    property_schema.called =>
        LET schema == property_schema.schema
            mapped == MappedType(sf_type)
        IN  /\ property_schema.raises =
                   (IF mapped = "none" /\ sf_type \notin {"anyType", "base64"}
                    THEN "TapSalesforceException" ELSE "None")
            /\ property_schema.raises = "None" =>
                   /\ schema.selected = selected
                   /\ schema.inclusion =
                          (IF sf_type = "base64" THEN "unsupported" ELSE inclusion)
                   /\ ("type" \in DOMAIN schema) <=> (mapped # "none")
                   /\ ("format" \in DOMAIN schema) <=> (sf_type \in {"date", "datetime"})
                   /\ sf_type \in {"date", "datetime"} => schema.format = "date-time"
                   /\ mapped # "none" =>
                          schema.type = (IF nillable THEN <<"null", mapped>>
                                         ELSE <<mapped>>)

\* C18 witness: a nillable datetime was translated
C18_Witness ==
    /\ sf_type = "datetime"
    /\ nillable
    /\ property_schema.called
    /\ property_schema.schema.type = <<"null", "string">>
    /\ property_schema.schema.format = "date-time"

====
